---- MODULE Spec2Model ----
(***************************************************************************)
(* A model of amlb/results.py: the Scoreboard ledger (as_data_frame,       *)
(* as_printable_data_frame, save, save_df, append) and the TaskResult      *)
(* scoring path (load_predictions, load_metadata, validate_predictions,    *)
(* compute_scores, score_from_predictions_file, Result.evaluate).          *)
(*                                                                         *)
(* Two specifications share the variables: Spec drives the Scoreboard and  *)
(* its ledger file, SpecScore drives the scoring of one task and fold.     *)
(***************************************************************************)
EXTENDS Integers, Sequences, FiniteSets, TLC

VARIABLES
    sb,        \* the Scoreboard at hand
    res,       \* the Scoreboard the last append returned, or NoBoard
    file,      \* the ledger file at the board's path
    backups,   \* the files backup_file copied aside, oldest first
    last,      \* the last Scoreboard call and its arguments
    env,       \* the artifacts of the run being scored and the test mode
    out        \* the last scoring call, its arguments and its outcome

vars == <<sb, res, file, backups, last, env, out>>

boardVars == <<sb, res, file, backups, last>>
scoreVars == <<env, out>>

(***************************************************************************)
(* Bounds of the model.                                                    *)
(***************************************************************************)
\* records in a list given to Scoreboard(scores=...)
MaxRecs == 1
\* rows a board may hold (append is not taken beyond it)
MaxRows == 2
\* data rows the ledger file may hold (save is not taken beyond it)
MaxFileRows == 2
\* files in the backup directory (save is not taken when it would add more)
MaxBackups == 1
\* metric names declared in a run's metadata
MaxMetrics == 1

Range(s) == {s[i] : i \in 1..Len(s)}

(***************************************************************************)
(* Cell values.  A number n stands for the float n/100; NaN is the float   *)
(* nan (pandas' missing value); a string is a Python str.  Score(m) is the *)
(* float a metric computation m returns for the predictions at hand.       *)
(***************************************************************************)
NaN == [k |-> "nan", s |-> "", n |-> 0]
\* Python's None
NoneV == [k |-> "none", s |-> "", n |-> 0]
Str(x) == [k |-> "s", s |-> x, n |-> 0]
Num(x) == [k |-> "n", s |-> "", n |-> x]
Score(m) == [k |-> "score", s |-> m, n |-> 0]

IsNum(v) == v.k = "n"
IsStr(v) == v.k = "s"

(***************************************************************************)
(* Frames: an ordered column list and a sequence of rows, each row a       *)
(* function from the column names to cell values.                          *)
(***************************************************************************)
NoFrame == [none |-> TRUE]
Frame(cols, rows) == [cols |-> cols, rows |-> rows]
EmptyFrame == Frame(<<>>, <<>>)

\* DataFrame.empty: a frame with no rows or no columns
IsEmpty(df) == Len(df.rows) = 0 \/ Len(df.cols) = 0

\* fixed_cols of as_data_frame, in the listed order
FixedCols ==
    << "id", "task", "framework", "constraint", "fold", "result", "metric",
       "mode", "version", "params", "app_version", "utc", "duration",
       "training_duration", "predict_duration", "models_count", "seed",
       "info" >>

\* The order of Python's str comparison on the column names of the model:
\* list.sort() puts a name before every name that follows it here.
LexOrder ==
    << "a", "acc", "app_version", "auc", "b", "c", "constraint", "df",
       "duration", "extra", "fold", "framework", "id", "info", "logloss",
       "metric", "mode", "models_count", "neg", "params", "pos",
       "predict_duration", "predictions", "result", "rmse", "seed", "task",
       "training_duration", "truth", "utc", "version" >>

LexRank(c) == CHOOSE i \in 1..Len(LexOrder) : LexOrder[i] = c

LexLess(a, b) == LexRank(a) < LexRank(b)

\* one step of list.sort(): c put after the names not greater than it
InsertSorted(sorted, c) ==
    LET before == SelectSeq(sorted, LAMBDA x : ~LexLess(c, x))
        after == SelectSeq(sorted, LAMBDA x : LexLess(c, x))
    IN before \o <<c>> \o after

RECURSIVE SortCols(_)
SortColsUnsorted(cols) == cols
SortCols(cols) ==
    IF cols = <<>> THEN <<>>
    ELSE InsertSorted(SortCols(SubSeq(cols, 1, Len(cols) - 1)), cols[Len(cols)])

(***************************************************************************)
(* to_data_frame([dict(sc) for sc in scores]): a record is a sequence of   *)
(* <<field, value>> pairs in insertion order; the columns are the fields   *)
(* in order of first appearance and a field a record lacks is NaN.         *)
(***************************************************************************)
RecFields(rec) == [i \in 1..Len(rec) |-> rec[i][1]]

RecValue(rec, c) ==
    IF \E i \in 1..Len(rec) : rec[i][1] = c
    THEN rec[CHOOSE i \in 1..Len(rec) : rec[i][1] = c][2]
    ELSE NaN

RECURSIVE AddCols(_, _)
AddCols(cols, more) ==
    IF more = <<>> THEN cols
    ELSE AddCols(IF more[1] \in Range(cols) THEN cols ELSE Append(cols, more[1]),
                 Tail(more))

RECURSIVE AllFields(_)
AllFields(recs) ==
    IF recs = <<>> THEN <<>>
    ELSE AddCols(AllFields(SubSeq(recs, 1, Len(recs) - 1)),
                 RecFields(recs[Len(recs)]))

ToDataFrame(recs) ==
    LET cols == AllFields(recs)
    IN Frame(cols,
             [i \in 1..Len(recs) |->
                 [c \in Range(cols) |-> RecValue(recs[i], c)]])

\* DataFrame.reindex(columns=cols): the rows over cols, NaN where the frame
\* has no such column
Reindex(df, cols) ==
    Frame(cols,
          [i \in 1..Len(df.rows) |->
              [c \in Range(cols) |->
                  IF c \in Range(df.cols) THEN df.rows[i][c] ELSE NaN]])

(***************************************************************************)
(* Scoreboard.as_data_frame, without its cache.                            *)
(***************************************************************************)
AsDataFrame(df) ==
    IF IsEmpty(df) THEN df
    ELSE LET dynamic_cols ==
                 SelectSeq(df.cols, LAMBDA c : c \notin Range(FixedCols))
         IN Reindex(df, FixedCols \o SortCols(dynamic_cols))

\* @cached as_data_frame(): the frame object the board holds once computed
CachedDataFrame(b) == IF b.adf = NoFrame THEN AsDataFrame(b.scores) ELSE b.adf

(***************************************************************************)
(* Scoreboard.as_printable_data_frame.  The lambdas and the column casts,  *)
(* then the frame: df is the object as_data_frame() returned and each      *)
(* df[col] = ... assigns into it.                                          *)
(***************************************************************************)
\* str_print: '' for None, '', 'None' and nan, else the value
str_print(v) ==
    IF v = NoneV \/ v = Str("") \/ v = Str("None") \/ v = NaN
    THEN Str("") ELSE v

\* str() of a non-negative float n/100, as astype(np.str) renders it
FloatText(n) ==
    LET whole == n \div 100
        frac == n % 100
    IN ToString(whole) \o "." \o
       (IF frac % 10 = 0 THEN ToString(frac \div 10)
        ELSE (IF frac < 10 THEN "0" ELSE "") \o ToString(frac))

\* .astype(np.str) of one cell
AsStrCell(v) == IF IsNum(v) THEN Str(FloatText(v.n)) ELSE IF v = NaN THEN Str("nan") ELSE v

\* int_print: int(val) for a float that is not nan, else str_print(val);
\* then .astype(np.str) renders the int
IntPrintCell(v) ==
    IF IsNum(v) THEN Str(ToString(v.n \div 100)) ELSE AsStrCell(str_print(v))

\* "{:.1f}".format then astype(np.float): the float rounded to one decimal
\* (a tie goes to the even digit, as for an exactly representable float)
Round1(n) ==
    LET q == n \div 10
        r == n % 10
    IN IF r < 5 THEN q * 10
       ELSE IF r > 5 THEN (q + 1) * 10
       ELSE IF q % 2 = 0 THEN q * 10 ELSE (q + 1) * 10

LowPrecisionCell(v) == IF IsNum(v) THEN Num(Round1(v.n)) ELSE v

\* "{:.6g}".format then astype(np.float): six significant digits
RECURSIVE Pow10Above(_, _)
Pow10Above(n, p) == IF n \div p < 1000000 THEN p ELSE Pow10Above(n, p * 10)

Round6g(n) ==
    LET p == Pow10Above(n, 1)
    IN ((n + (p \div 2)) \div p) * p

HighPrecisionCell(v) == IF IsNum(v) THEN Num(Round6g(v.n)) ELSE v

force_str_cols == {"id"}
nanable_int_cols == {"fold", "models_count", "seed"}
low_precision_float_cols == {"duration", "training_duration", "predict_duration"}

\* df.select_dtypes(include=[np.float]): the columns holding floats only
IsFloatCol(df, c) == \A i \in 1..Len(df.rows) : df.rows[i][c] = NaN \/ IsNum(df.rows[i][c])

high_precision_float_cols(df) ==
    {c \in Range(df.cols) :
        /\ IsFloatCol(df, c)
        /\ c \notin nanable_int_cols \cup low_precision_float_cols}

\* df[col] raises KeyError for a column the frame does not have, and
\* astype(np.float) raises for a cell that is a string
PrintableRaises(df) ==
    \/ ~(force_str_cols \cup nanable_int_cols \cup low_precision_float_cols
            \subseteq Range(df.cols))
    \/ \E c \in low_precision_float_cols, i \in 1..Len(df.rows) :
          IsStr(df.rows[i][c])

PrintCell(df, hp, c, v) ==
    IF c \in force_str_cols THEN AsStrCell(str_print(v))
    ELSE IF c \in nanable_int_cols THEN IntPrintCell(v)
    ELSE IF c \in low_precision_float_cols THEN LowPrecisionCell(v)
    ELSE IF c \in hp THEN HighPrecisionCell(v)
    ELSE v

Printable(df) ==
    LET hp == high_precision_float_cols(df)
    IN Frame(df.cols,
             [i \in 1..Len(df.rows) |->
                 [c \in Range(df.cols) |-> PrintCell(df, hp, c, df.rows[i][c])]])

(***************************************************************************)
(* The ledger file and Scoreboard.save_df.  The file is absent or holds a  *)
(* header and the rows handed to write_csv; backup_file copies the file    *)
(* aside into the backup directory.                                        *)
(***************************************************************************)
NoFile == [absent |-> TRUE]
File(header, rows) == [header |-> header, rows |-> rows]

backup_file(f, bk) == IF f = NoFile THEN bk ELSE Append(bk, f)

\* write_csv(data_frame, path, header, append): a fresh file with the
\* frame's header, or the frame's rows after the rows already there
write_csv(df, f, header, append) ==
    IF append THEN File(f.header, f.rows \o df.rows)
    ELSE File(IF header THEN df.cols ELSE <<>>, df.rows)

SaveDfBackupOnlyNewFormat(data_frame, f, bk, append) ==
    LET exists == f # NoFile
        new_format == exists /\ f.header # data_frame.cols
        new_file == ~exists \/ ~append \/ new_format
    IN [file |-> write_csv(data_frame, f, new_file, ~new_file),
        backups |-> IF new_format THEN backup_file(f, bk) ELSE bk]

save_df(data_frame, f, bk, append) ==
    LET exists == f # NoFile
        new_format == exists /\ f.header # data_frame.cols
        new_file == ~exists \/ ~append \/ new_format
    IN [file |-> write_csv(data_frame, f, new_file, ~new_file),
        backups |-> IF new_format \/ (exists /\ ~append)
                    THEN backup_file(f, bk) ELSE bk]

(***************************************************************************)
(* DataFrame.append(other, sort=False) and drop_duplicates().              *)
(***************************************************************************)
\* the columns of the receiver, then the other frame's new ones in order;
\* both frames' rows in order, NaN where a frame lacks a column
FrameAppend(df, other) ==
    LET cols == AddCols(df.cols, other.cols)
    IN Frame(cols, Reindex(df, cols).rows \o Reindex(other, cols).rows)

RECURSIVE DropDuplicates(_)
DropDuplicatesKeepLast(rows) ==
    LET idx == SelectSeq([i \in 1..Len(rows) |-> i],
                         LAMBDA i : \A j \in (i + 1)..Len(rows) : rows[j] # rows[i])
    IN [k \in 1..Len(idx) |-> rows[idx[k]]]
DropDuplicates(rows) ==
    IF rows = <<>> THEN <<>>
    ELSE LET kept == DropDuplicates(SubSeq(rows, 1, Len(rows) - 1))
             r == rows[Len(rows)]
         IN IF r \in Range(kept) THEN kept ELSE Append(kept, r)

(***************************************************************************)
(* The scoring of one task and fold.  A predictions table is what          *)
(* read_csv(predictions_file, dtype=object) returns: column names and rows *)
(* of cells, a cell being the text of a number (Num) or other text (Str).  *)
(***************************************************************************)
Table(cols, rows) == [cols |-> cols, rows |-> rows]

\* np.sort / np.unique on column labels
NpSort(labels) == SortCols(labels)
NpUnique(labels) ==
    LET sorted == SortCols(labels)
    IN SelectSeq([i \in 1..Len(sorted) |->
                     IF i > 1 /\ sorted[i - 1] = sorted[i] THEN "" ELSE sorted[i]],
                 LAMBDA x : x # "")

\* r[:-2].astype(float).idxmax(): the label of the first largest probability
IdxMax(predictors, row) ==
    predictors[CHOOSE i \in 1..Len(predictors) :
                  /\ \A j \in 1..Len(predictors) : row[j].n <= row[i].n
                  /\ \A j \in 1..(i - 1) : row[j].n < row[i].n]

\* _encode_predictions_and_truth_ (line 531)
encode_predictions_and_truth == FALSE

\* TaskResult.validate_predictions raises (an assertion, or pd.to_numeric)
ValidateRaises(t) ==
    LET names == t.cols
        n == Len(names)
    IN \/ n < 2
       \/ names[n] # "truth"
       \/ names[n - 1] # "predictions"
       \/ /\ n = 2
          /\ \E i \in 1..Len(t.rows), j \in 1..n : ~IsNum(t.rows[i][j])
       \/ /\ n > 2
          /\ LET predictors == SubSeq(names, 1, n - 2)
             IN \/ predictors # NpSort(predictors)
                \/ Range(NpUnique(predictors)) # Range(predictors)
                \/ \E i \in 1..Len(t.rows), j \in 1..(n - 2) :
                      ~IsNum(t.rows[i][j])
                \/ /\ ~encode_predictions_and_truth
                   /\ \/ ~({t.rows[i][n - 1].s : i \in 1..Len(t.rows)}
                             \subseteq Range(predictors))
                      \/ \E i \in 1..Len(t.rows) :
                            Str(IdxMax(predictors, t.rows[i])) # t.rows[i][n - 1]

\* Result variants.  info is a cell value (None or a str); type is "" for
\* None, else the name of the DatasetType.
Result(variant, info, type) == [variant |-> variant, info |-> info, type |-> type]

NoResult(info) == Result("NoResult", info, "")
\* ErrorResult(ResultError(e)): the message is "ResultError: <e>", cut to
\* results.error_max_length
ErrorResult(msg) == Result("ErrorResult", Str("ResultError: " \o msg), "")

\* the constructors ClassificationResult(df) / RegressionResult(df) raise:
\* fewer than two columns (iloc), a probability or a regression truth that
\* is no number (astype(float)), a class label the encoder does not know
ConstructRaises(t) ==
    LET n == Len(t.cols)
    IN \/ n < 2
       \/ /\ n = 2
          /\ \E i \in 1..Len(t.rows) : ~IsNum(t.rows[i][n])
       \/ /\ n > 2
          /\ \/ \E i \in 1..Len(t.rows), j \in 1..(n - 2) : ~IsNum(t.rows[i][j])
             \/ \E i \in 1..Len(t.rows), j \in {n - 1, n} :
                   t.rows[i][j].s \notin {t.cols[c] : c \in 1..(n - 2)}

Construct(t) ==
    IF Len(t.cols) > 2
    THEN Result("ClassificationResult", NoneV,
                IF Len(t.cols) - 2 = 2 THEN "binary" ELSE "multiclass")
    ELSE Result("RegressionResult", NoneV, "regression")

\* The predictions file: missing, unreadable (read_csv raises) or a table.
MissingFile == [state |-> "missing"]
UnreadableFile == [state |-> "unreadable"]
TableFile(t) == [state |-> "table", table |-> t]

\* TaskResult.load_predictions: everything raised between read_csv and the
\* constructors, validation included, is caught and becomes an ErrorResult
load_predictions(pred, test_mode) ==
    IF pred.state = "missing"
    THEN [raised |-> FALSE, result |-> NoResult(Str("Missing predictions."))]
    ELSE IF pred.state = "unreadable"
    THEN [raised |-> FALSE, result |-> ErrorResult("read_csv")]
    ELSE IF test_mode /\ ValidateRaises(pred.table)
    THEN [raised |-> FALSE, result |-> ErrorResult("validate_predictions")]
    ELSE IF ConstructRaises(pred.table)
    THEN [raised |-> FALSE, result |-> ErrorResult("construct")]
    ELSE [raised |-> FALSE, result |-> Construct(pred.table)]

(***************************************************************************)
(* Result.evaluate.  A metric argument is a name or None (Unset).          *)
(***************************************************************************)
Unset == [set |-> FALSE, name |-> ""]
M(x) == [set |-> TRUE, name |-> x]

\* methods of the variant that take no argument: the metric computations
\* and _per_class_errors
ZeroArgMethods(variant) ==
    IF variant = "ClassificationResult"
    THEN {"acc", "balacc", "auc", "cm", "_per_class_errors", "mean_pce",
          "max_pce", "f1", "logloss"}
    ELSE IF variant = "RegressionResult"
    THEN {"mae", "mse", "msle", "rmse", "rmsle", "r2"}
    ELSE {}

\* every other attribute hasattr finds: the fields set by the constructors
\* and the methods that need an argument
OtherAttrs(variant) ==
    {"df", "info", "truth", "predictions", "target", "type", "evaluate"}
    \cup (IF variant = "ClassificationResult"
          THEN {"classes", "probabilities", "labels", "_autoencode"}
          ELSE {})

\* str(self.type) in the message
TypeText(type) == IF type = "" THEN "None" ELSE "DatasetType." \o type

Returned(score, err) == [raised |-> FALSE, score |-> score, err |-> err]
Raised(exc) == [raised |-> TRUE, exc |-> exc]

\* Result.evaluate(metric) on a loaded result; failing is the set of metric
\* computations that raise on these predictions
Evaluate(r, metric, failing) ==
    IF r.variant \in {"NoResult", "ErrorResult"}
    THEN \* NoResult.evaluate: the metric is not looked at
         Returned(NaN, NoneV)
    ELSE IF ~metric.set
    THEN \* hasattr(self, None): attribute name must be string
         Raised("TypeError")
    ELSE IF metric.name \in ZeroArgMethods(r.variant)
    THEN IF metric.name \in failing
         THEN Returned(NaN, Str("scoring " \o metric.name \o ": error"))
         ELSE IF metric.name = "auc" /\ r.type # "binary"
         THEN Returned(NaN, NoneV)
         ELSE Returned(Score(metric.name), NoneV)
    ELSE IF metric.name \in OtherAttrs(r.variant)
    THEN \* getattr(self, metric)() raises TypeError inside the try
         Returned(NaN, Str("scoring " \o metric.name \o ": not callable"))
    ELSE Returned(NaN, Str("Unsupported metric " \o metric.name \o " for "
                            \o TypeText(r.type)))

(***************************************************************************)
(* Namespaces are dicts in insertion order: sequences of <<key, value>>.   *)
(***************************************************************************)
Has(d, key) == \E i \in 1..Len(d) : d[i][1] = key
\* Namespace.__getitem__
Get(d, key) == RecValue(d, key)
\* Namespace.__setitem__ / attribute assignment
Set(d, key, v) ==
    IF Has(d, key)
    THEN [i \in 1..Len(d) |-> IF d[i][1] = key THEN <<key, v>> ELSE d[i]]
    ELSE Append(d, <<key, v>>)

\* scores % Namespace(...): adds only the keys scores does not have
RECURSIVE SetDefaults(_, _)
SetDefaults(d, more) ==
    IF more = <<>> THEN d
    ELSE SetDefaults(IF Has(d, more[1][1]) THEN d ELSE Append(d, more[1]),
                     Tail(more))

(***************************************************************************)
(* TaskResult.load_metadata: the metadata file is missing, or holds the    *)
(* primary metric and the declared metric list of the run.  The object for *)
(* a missing file answers None for every field.                            *)
(***************************************************************************)
MissingMetadata == [present |-> FALSE, metric |-> Unset, metrics |-> <<>>]
Metadata(metric, metrics) ==
    [present |-> TRUE, metric |-> M(metric), metrics |-> metrics]

load_metadata(meta) == meta

MetaField(metadata, name) ==
    IF metadata.present THEN Str(name) ELSE NoneV

\* the value of a metric argument as a cell of the record
MetricCell(metric) == IF metric.set THEN Str(metric.name) ELSE NoneV

required_metares == <<"training_duration", "predict_duration", "models_count">>

(***************************************************************************)
(* TaskResult.compute_scores for task "t", fold 0, given the loaded        *)
(* metadata and result and the optional meta_result (<<>> for None).       *)
(***************************************************************************)
InitialScores(metadata, meta_result) ==
    << <<"id", Str("t")>>,
       <<"task", Str("t")>>,
       <<"constraint", NoneV>>,
       <<"framework", MetaField(metadata, "framework")>>,
       <<"version", MetaField(metadata, "version")>>,
       <<"params", Str("")>>,
       <<"fold", Num(0)>>,
       <<"mode", Str("local")>>,
       <<"seed", MetaField(metadata, "seed")>>,
       <<"app_version", Str("app")>>,
       <<"utc", Str("utc")>>,
       <<"metric", MetricCell(metadata.metric)>>,
       <<"duration", NaN>> >>
    \o [i \in 1..Len(required_metares) |->
           <<required_metares[i],
             IF Has(meta_result, required_metares[i])
             THEN Get(meta_result, required_metares[i]) ELSE NaN>>]

\* the loop over metadata.metrics: st is [raised, scores, errors]
RECURSIVE ScoreDeclared(_, _, _, _)
ScoreDeclared(st, metrics, r, failing) ==
    IF metrics = <<>> \/ st.raised THEN st
    ELSE LET e == Evaluate(r, M(metrics[1]), failing)
         IN ScoreDeclared(
                IF e.raised THEN [st EXCEPT !.raised = TRUE]
                ELSE [raised |-> FALSE,
                      scores |-> Set(st.scores, metrics[1], e.score),
                      errors |-> IF e.err # NoneV /\ e.err # Str("")
                                 THEN Append(st.errors, e.err.s)
                                 ELSE st.errors],
                Tail(metrics), r, failing)

\* "; ".join(parts)
RECURSIVE Join(_)
Join(parts) ==
    IF parts = <<>> THEN ""
    ELSE IF Len(parts) = 1 THEN parts[1]
    ELSE parts[1] \o "; " \o Join(Tail(parts))

compute_scores(metadata, r, meta_result, failing) ==
    LET st0 == [raised |-> FALSE,
                scores |-> InitialScores(metadata, meta_result),
                errors |-> <<>>]
        st1 == ScoreDeclared(st0, metadata.metrics, r, failing)
        primary == metadata.metric
        \* scores.metric in scores: None is no key of the record
        known == primary.set /\ Has(st1.scores, primary.name)
        e == IF known THEN Returned(Get(st1.scores, primary.name), NoneV)
             ELSE Evaluate(r, primary, failing)
    IN IF st1.raised \/ e.raised THEN Raised("TypeError")
       ELSE LET errors == IF e.err # NoneV /\ e.err # Str("")
                          THEN Append(st1.errors, e.err.s) ELSE st1.errors
                info == IF errors = <<>> THEN r.info
                        ELSE Str(Join((IF r.info = NoneV \/ r.info = Str("")
                                       THEN <<>> ELSE <<r.info.s>>) \o errors))
                scores == Set(Set(st1.scores, "result", e.score), "info", info)
                rest == SelectSeq(meta_result,
                                  LAMBDA kv : kv[1] \notin Range(required_metares))
            IN [raised |-> FALSE, scores |-> SetDefaults(scores, rest)]

(***************************************************************************)
(* TaskResult.score_from_predictions_file.  A basename is a sequence of    *)
(* characters; sep is rconfig().token_separator, put into the pattern as   *)
(* it is.                                                                  *)
(***************************************************************************)
WordChars ==
    {"a", "b", "c", "e", "h", "k", "l", "m", "n", "r", "s", "t", "u", "v", "x",
     "_", "-", "0", "7"}
Digits == {"0", "7"}
DotCsv == <<".", "c", "s", "v">>

\* the character ch matches the pattern text sep ("." matches any character)
SepMatches(sep, ch) == sep = "." \/ ch = sep

AllIn(str, from, to, chars) == \A i \in from..to : str[i] \in chars

\* re.fullmatch(rf"(?P<framework>[\w\-]+?){sep}(?P<task>[\w\-]+){sep}(?P<fold>\d+)\.csv", basename):
\* the positions <<i, j>> of the two separators of the match, or <<>>
FileSplits(sep, name) ==
    LET n == Len(name) - Len(DotCsv)
    IN IF n < 5 \/ SubSeq(name, n + 1, Len(name)) # DotCsv THEN {}
       ELSE {ij \in (1..n) \X (1..n) :
                /\ 1 < ij[1] /\ ij[1] + 1 < ij[2] /\ ij[2] < n
                /\ AllIn(name, 1, ij[1] - 1, WordChars)
                /\ SepMatches(sep, name[ij[1]])
                /\ AllIn(name, ij[1] + 1, ij[2] - 1, WordChars)
                /\ SepMatches(sep, name[ij[2]])
                /\ AllIn(name, ij[2] + 1, n, Digits)}

FileMatches(sep, name) == FileSplits(sep, name) # {}

\* binding the arguments of a call to compute_scores(self, result=None,
\* meta_result=None): a TypeError when a keyword names a parameter that a
\* positional argument already filled, or when there are too many
compute_scores_params == <<"result", "meta_result">>

BindRaises(positional, keywords) ==
    \/ Len(positional) > Len(compute_scores_params)
    \/ \E i \in 1..Len(compute_scores_params) :
          i <= Len(positional) /\ compute_scores_params[i] \in keywords

\* score_from_predictions_file(path) for a path without a run folder
score_from_predictions_file(sep, name, pred, test_mode, metadata, failing) ==
    IF ~FileMatches(sep, name) THEN [raised |-> FALSE, record |-> NoneV]
    ELSE LET loaded == load_predictions(pred, test_mode)
         IN IF loaded.result.type = ""
            THEN \* result.type.name with type None
                 Raised("AttributeError")
            ELSE IF BindRaises(<<"framework_name", "metrics">>, {"result"})
            THEN \* compute_scores(framework_name, metrics, result=result)
                 Raised("TypeError")
            ELSE LET c == compute_scores(metadata, loaded.result, <<>>, failing)
                 IN IF c.raised THEN c
                    ELSE [raised |-> FALSE, record |-> c.scores]

(***************************************************************************)
(* The name of a ledger file.  Names and file names are sequences of       *)
(* characters.  A scope part is None, False (what from_file gives a part   *)
(* its pattern has no group for) or a name.                                *)
(***************************************************************************)
FalseV == [k |-> "False"]
Chars(cs) == [k |-> "chars", cs |-> cs]
\* the truth value of a scope part in `if self.framework_name:`
Truthy(v) == v.k = "chars" /\ v.cs # <<>>

TaskLit == <<"t", "a", "s", "k">>
BenchmarkLit == <<"b", "e", "n", "c", "h", "m", "a", "r", "k">>
\* Scoreboard.results_file
results_file == <<"r", "e", "s", "u", "l", "t", "s", ".", "c", "s", "v">>

Scope(framework_name, benchmark_name, task_name) ==
    [framework_name |-> framework_name, benchmark_name |-> benchmark_name,
     task_name |-> task_name]

\* Scoreboard._score_file: the file name joined to scores_dir
score_file_name(sep, scope) ==
    IF Truthy(scope.framework_name)
    THEN IF Truthy(scope.task_name)
         THEN scope.framework_name.cs \o <<sep>> \o TaskLit \o <<"_">>
                 \o scope.task_name.cs \o DotCsv
         ELSE IF Truthy(scope.benchmark_name)
         THEN scope.framework_name.cs \o <<sep>> \o BenchmarkLit \o <<"_">>
                 \o scope.benchmark_name.cs \o DotCsv
         ELSE scope.framework_name.cs \o DotCsv
    ELSE IF Truthy(scope.task_name)
         THEN TaskLit \o <<"_">> \o scope.task_name.cs \o DotCsv
         ELSE IF Truthy(scope.benchmark_name)
         THEN BenchmarkLit \o <<"_">> \o scope.benchmark_name.cs \o DotCsv
         ELSE results_file

\* Elements of a pattern: a literal character, "." (any character), the
\* text of sep as it is, and a named group (?P<name>[\w\-]+).
PLit(ch) == [t |-> "lit", ch |-> ch, name |-> ""]
PAny == [t |-> "any", ch |-> "", name |-> ""]
PSep(sep) == [t |-> "sep", ch |-> sep, name |-> ""]
PGroup(name) == [t |-> "group", ch |-> "", name |-> name]
PLits(cs) == [i \in 1..Len(cs) |-> PLit(cs[i])]
\* a text used as a pattern: its "." matches any character
PText(cs) == [i \in 1..Len(cs) |-> IF cs[i] = "." THEN PAny ELSE PLit(cs[i])]

NoMatch == [ok |-> FALSE, groups |-> <<>>]

\* re.fullmatch from position pos on: the match the backtracking search
\* finds first, a group taking the longest text that lets the rest match
RECURSIVE Match(_, _, _)
Match(pat, str, pos) ==
    IF pat = <<>>
    THEN IF pos = Len(str) + 1 THEN [ok |-> TRUE, groups |-> <<>>] ELSE NoMatch
    ELSE LET e == pat[1]
             rest == Tail(pat)
         IN IF e.t = "group"
            THEN LET lens == {l \in 1..(Len(str) - pos + 1) :
                                 /\ AllIn(str, pos, pos + l - 1, WordChars)
                                 /\ Match(rest, str, pos + l).ok}
                 IN IF lens = {} THEN NoMatch
                    ELSE LET l == CHOOSE x \in lens : \A y \in lens : y <= x
                         IN [ok |-> TRUE,
                             groups |-> << <<e.name, SubSeq(str, pos, pos + l - 1)>> >>
                                           \o Match(rest, str, pos + l).groups]
            ELSE IF pos > Len(str) THEN NoMatch
            ELSE IF \/ e.t = "any"
                    \/ e.t = "lit" /\ str[pos] = e.ch
                    \/ e.t = "sep" /\ SepMatches(e.ch, str[pos])
            THEN Match(rest, str, pos + 1)
            ELSE NoMatch

\* the patterns of from_file, in the order it tries them
patterns(sep) ==
    << PText(results_file),
       <<PGroup("framework"), PSep(sep)>> \o PLits(BenchmarkLit)
           \o <<PSep(sep), PGroup("benchmark")>> \o PLits(DotCsv),
       PLits(BenchmarkLit) \o <<PSep(sep), PGroup("benchmark")>> \o PLits(DotCsv),
       <<PGroup("framework"), PSep(sep)>> \o PLits(TaskLit)
           \o <<PSep(sep), PGroup("task")>> \o PLits(DotCsv),
       PLits(TaskLit) \o <<PSep(sep), PGroup("task")>> \o PLits(DotCsv),
       <<PGroup("framework")>> \o PLits(DotCsv) >>

\* 'framework' in d and d['framework']
GroupOr(d, name) == IF Has(d, name) THEN Chars(Get(d, name)) ELSE FalseV

\* Scoreboard.from_file(path) for a path whose basename is the given file
\* name: the scope of the Scoreboard it returns, or None
from_file(sep, basename) ==
    LET pats == patterns(sep)
        found == {i \in 1..Len(pats) : Match(pats[i], basename, 1).ok}
    IN IF found = {} THEN NoneV
       ELSE LET first == CHOOSE i \in found : \A j \in found : i <= j
                d == Match(pats[first], basename, 1).groups
            IN Scope(GroupOr(d, "framework"), GroupOr(d, "benchmark"),
                     GroupOr(d, "task"))

(***************************************************************************)
(* The Scoreboard: its scores, the frame as_data_frame() cached (NoFrame   *)
(* before the first call) and whether as_printable_data_frame() has run.   *)
(***************************************************************************)
NoBoard == [none |-> TRUE]
Board(scores) == [scores |-> scores, adf |-> NoFrame, printed |-> FALSE]

\* score records a caller may hand to Scoreboard(scores=[...])
RecA ==
    << <<"id", Str("t1")>>, <<"fold", Num(0)>>, <<"duration", Num(123)>>,
       <<"acc", Num(50)>> >>
\* the fields of RecA in another insertion order
RecA2 ==
    << <<"acc", Num(50)>>, <<"duration", Num(123)>>, <<"fold", Num(0)>>,
       <<"id", Str("t1")>> >>
RecB ==
    << <<"id", Str("t2")>>, <<"fold", Num(100)>>, <<"duration", Num(127)>>,
       <<"rmse", Num(1234567)>>, <<"auc", Num(75)>> >>

InputRecs == {RecA, RecA2, RecB}

RECURSIVE SeqsUpTo(_, _)
SeqsUpTo(S, n) ==
    IF n = 0 THEN {<<>>}
    ELSE LET shorter == SeqsUpTo(S, n - 1)
         IN shorter \cup {Append(q, x) : q \in shorter, x \in S}

InputLists == SeqsUpTo(InputRecs, MaxRecs)

\* data frames a caller may hand over: the frame of a ledger that was never
\* written (load_df of a missing file), and a table without rows whose
\* columns are those of an earlier merge
HeaderOnlyFrame == Frame(FixedCols \o <<"rmse", "acc">>, <<>>)
\* the frame append returns for a board of RecA and a board of RecB
MergedFrame ==
    FrameAppend(AsDataFrame(ToDataFrame(<<RecA>>)),
                AsDataFrame(ToDataFrame(<<RecB>>)))
InputFrames == {EmptyFrame, HeaderOnlyFrame, MergedFrame}

NoOut == [op |-> "none"]

NoCall == [op |-> "none", append |-> FALSE, nodup |-> FALSE, self |-> FALSE,
           other |-> NoFrame]

Init ==
    /\ sb = Board(EmptyFrame)
    /\ res = NoBoard
    /\ file = NoFile
    /\ backups = <<>>
    /\ last = NoCall
    /\ env = [pred |-> MissingFile, meta |-> MissingMetadata, test_mode |-> FALSE]
    /\ out = NoOut

\* Scoreboard(scores=...) with a list of records or a data frame
NewBoard ==
    /\ \/ \E recs \in InputLists : sb' = Board(ToDataFrame(recs))
       \/ \E df \in InputFrames : sb' = Board(df)
    /\ res' = NoBoard
    /\ last' = [NoCall EXCEPT !.op = "new"]
    /\ UNCHANGED <<file, backups, scoreVars>>

\* Scoreboard.save(append): as_printable_data_frame() formats the cached
\* frame of as_data_frame() in place and is itself cached; save_df writes it
Save ==
    /\ \E append \in BOOLEAN :
          LET df == CachedDataFrame(sb)
          IN IF ~sb.printed /\ PrintableRaises(df)
             THEN /\ sb' = [sb EXCEPT !.adf = df]
                  /\ last' = [NoCall EXCEPT !.op = "save_raised",
                                            !.append = append]
                  /\ UNCHANGED <<file, backups>>
             ELSE LET p == IF sb.printed THEN sb.adf ELSE Printable(df)
                      r == save_df(p, file, backups, append)
                  IN /\ Len(r.file.rows) <= MaxFileRows
                     /\ Len(r.backups) <= MaxBackups
                     /\ sb' = [sb EXCEPT !.adf = p, !.printed = TRUE]
                     /\ file' = r.file
                     /\ backups' = r.backups
                     /\ last' = [NoCall EXCEPT !.op = "save", !.append = append]
    /\ UNCHANGED <<res, scoreVars>>

\* Scoreboard.as_printable_data_frame() called on its own: the same
\* formatting of the cached frame, nothing written
Format ==
    /\ LET df == CachedDataFrame(sb)
       IN IF ~sb.printed /\ PrintableRaises(df)
          THEN /\ sb' = [sb EXCEPT !.adf = df]
               /\ last' = [NoCall EXCEPT !.op = "format_raised"]
          ELSE /\ sb' = [sb EXCEPT
                            !.adf = IF sb.printed THEN sb.adf ELSE Printable(df),
                            !.printed = TRUE]
               /\ last' = [NoCall EXCEPT !.op = "format"]
    /\ res' = NoBoard
    /\ UNCHANGED <<file, backups, scoreVars>>

\* Scoreboard.append(board_or_df, no_duplicates) with another Scoreboard, a
\* data frame or the board itself; res holds the Scoreboard it returns
AppendTo(to_append, itself, no_duplicates) ==
    LET mine == CachedDataFrame(sb)
        merged == FrameAppend(mine, to_append)
        scores == IF no_duplicates
                  THEN Frame(merged.cols, DropDuplicates(merged.rows))
                  ELSE merged
    IN /\ Len(scores.rows) <= MaxRows
       /\ res' = Board(scores)
       /\ sb' = [sb EXCEPT !.adf = mine]
       /\ last' = [op |-> "append", append |-> FALSE, nodup |-> no_duplicates,
                   self |-> itself, other |-> to_append]
       /\ UNCHANGED <<file, backups, scoreVars>>

AppendBoard ==
    \E recs \in InputLists, nd \in BOOLEAN :
        AppendTo(AsDataFrame(ToDataFrame(recs)), FALSE, nd)

AppendFrame ==
    \E df \in InputFrames, nd \in BOOLEAN : AppendTo(df, FALSE, nd)

AppendSelf ==
    \E nd \in BOOLEAN : AppendTo(CachedDataFrame(sb), TRUE, nd)

\* the caller goes on with the Scoreboard that append returned
Adopt ==
    /\ res # NoBoard
    /\ sb' = res
    /\ res' = NoBoard
    /\ last' = [NoCall EXCEPT !.op = "adopt"]
    /\ UNCHANGED <<file, backups, scoreVars>>

(***************************************************************************)
(* The scoring calls.                                                      *)
(***************************************************************************)
\* the predictions tables of the model
ClsGood ==
    Table(<<"neg", "pos", "predictions", "truth">>,
          << <<Num(90), Num(10), Str("neg"), Str("neg")>>,
             <<Num(20), Num(80), Str("pos"), Str("pos")>> >>)
\* probability columns out of order
ClsUnsorted ==
    Table(<<"pos", "neg", "predictions", "truth">>,
          << <<Num(10), Num(90), Str("neg"), Str("neg")>>,
             <<Num(80), Num(20), Str("pos"), Str("pos")>> >>)
\* a predicted label that is not the most probable one
ClsArgmax ==
    Table(<<"neg", "pos", "predictions", "truth">>,
          << <<Num(90), Num(10), Str("pos"), Str("neg")>> >>)
ClsMulti ==
    Table(<<"a", "b", "c", "predictions", "truth">>,
          << <<Num(70), Num(20), Num(10), Str("a"), Str("b")>> >>)
\* two probability columns with the same label (a frame built in memory:
\* read_csv renames a repeated column)
ClsDuplicate ==
    Table(<<"a", "a", "predictions", "truth">>,
          << <<Num(50), Num(50), Str("a"), Str("a")>> >>)
RegGood ==
    Table(<<"predictions", "truth">>, << <<Num(150), Num(200)>> >>)
\* a prediction that is no number
RegText ==
    Table(<<"predictions", "truth">>, << <<Str("x"), Num(200)>> >>)

PredFiles ==
    {MissingFile, UnreadableFile}
    \cup {TableFile(t) : t \in {ClsGood, ClsUnsorted, ClsArgmax, ClsMulti,
                                RegGood, RegText}}

\* metric names a run may name: a classification metric, a regression
\* metric, the name of a field of every result object and the name of a
\* field of every score record
MetricNames == {"acc", "rmse", "df", "fold"}

MetaFiles ==
    {MissingMetadata}
    \cup {Metadata(m, ms) : m \in MetricNames, ms \in SeqsUpTo(MetricNames, MaxMetrics)}

\* meta_result: None, or the durations and model count with one more field
MetaResults ==
    {<<>>,
     << <<"training_duration", Num(1000)>>, <<"predict_duration", Num(200)>>,
        <<"models_count", Num(300)>>, <<"extra", Num(100)>> >>}

\* the metric computations that raise on the predictions at hand
FailingSets == {{}, {"acc", "rmse"}}

\* the characters of "a_t_0.csv" and of other basenames
Basenames ==
    {<<"a", "_", "t", "_", "0", ".", "c", "s", "v">>,
     <<"a", "_", "b", "_", "t", "_", "7", "0", ".", "c", "s", "v">>,
     <<"a", ".", "t", ".", "0", ".", "c", "s", "v">>,
     <<"a", "_", "t", ".", "c", "s", "v">>,
     <<"a", "_", "t", "_", "0">>,
     <<"a", "_", "t", "_", "b", ".", "c", "s", "v">>}

Seps == {"_", "."}

\* The run leaves other artifacts, or the test mode is switched; a new
\* TaskResult is made for them (get_result and get_metadata memoize).
WritePredictions ==
    /\ \E pred \in PredFiles : env' = [env EXCEPT !.pred = pred]
    /\ out' = NoOut
    /\ UNCHANGED boardVars

WriteMetadata ==
    /\ \E meta \in MetaFiles : env' = [env EXCEPT !.meta = meta]
    /\ out' = NoOut
    /\ UNCHANGED boardVars

SetTestMode ==
    /\ \E test_mode \in BOOLEAN : env' = [env EXCEPT !.test_mode = test_mode]
    /\ out' = NoOut
    /\ UNCHANGED boardVars

\* get_result(): the loaded result
LoadedResult == load_predictions(env.pred, env.test_mode).result

\* get_result().evaluate(metric)
EvaluateMetric ==
    /\ \E metric \in {Unset} \cup {M(m) : m \in MetricNames}, failing \in FailingSets :
          out' = [op |-> "evaluate", metric |-> metric, failing |-> failing,
                  call |-> Evaluate(LoadedResult, metric, failing)]
    /\ UNCHANGED <<env, boardVars>>

\* TaskResult(task, 0, constraint).compute_scores(meta_result=...)
ComputeScores ==
    /\ \E meta_result \in MetaResults, failing \in FailingSets :
          out' = [op |-> "compute_scores", meta_result |-> meta_result,
                  failing |-> failing,
                  call |-> compute_scores(load_metadata(env.meta), LoadedResult,
                                          meta_result, failing)]
    /\ UNCHANGED <<env, boardVars>>

\* TaskResult.score_from_predictions_file(path) for the predictions at hand
ScoreFromFile ==
    /\ \E name \in Basenames, sep \in Seps, failing \in FailingSets :
          out' = [op |-> "score_from_predictions_file", name |-> name,
                  sep |-> sep, failing |-> failing,
                  call |-> score_from_predictions_file(
                               sep, name, env.pred, env.test_mode,
                               load_metadata(env.meta), failing)]
    /\ UNCHANGED <<env, boardVars>>

\* the frames validate_predictions is handed
ValidateTables ==
    {ClsGood, ClsUnsorted, ClsArgmax, ClsMulti, ClsDuplicate, RegGood, RegText}

\* TaskResult.validate_predictions(predictions)
ValidatePredictions ==
    /\ \E t \in ValidateTables :
          out' = [op |-> "validate_predictions", table |-> t,
                  call |-> [raised |-> ValidateRaises(t)]]
    /\ UNCHANGED <<env, boardVars>>

NextScore ==
    \/ ValidatePredictions
    \/ WritePredictions
    \/ WriteMetadata
    \/ SetTestMode
    \/ EvaluateMetric
    \/ ComputeScores
    \/ ScoreFromFile

SpecScore == Init /\ [][NextScore]_vars

\* names a framework, a benchmark or a task may have: word characters and
\* hyphens
Names ==
    {<<"a">>,
     <<"x", "-", "7">>,
     <<"r", "e", "s", "u", "l", "t", "s">>,
     <<"t", "a", "s", "k", "_", "x">>,
     <<"a", "_", "t", "a", "s", "k", "_", "b">>}

ScopeParts == {NoneV} \cup {Chars(n) : n \in Names}

\* values of rconfig().token_separator
TokenSeparators == {"_", ".", "-"}

\* Scoreboard(framework_name=..., benchmark_name=..., task_name=...)._score_file()
ScoreFile ==
    /\ \E sep \in TokenSeparators, f \in ScopeParts, b \in ScopeParts, t \in ScopeParts :
          out' = [op |-> "_score_file", sep |-> sep, scope |-> Scope(f, b, t),
                  path |-> score_file_name(sep, Scope(f, b, t))]
    /\ UNCHANGED <<env, boardVars>>

\* Scoreboard.from_file(path) for the path _score_file built
FromFile ==
    /\ out.op = "_score_file"
    /\ out' = [op |-> "from_file", sep |-> out.sep, scope |-> out.scope,
               path |-> out.path, board |-> from_file(out.sep, out.path)]
    /\ UNCHANGED <<env, boardVars>>

NextNaming ==
    \/ ScoreFile
    \/ FromFile

SpecNaming == Init /\ [][NextNaming]_vars

\* The ledger: boards are made and saved
Next ==
    \/ NewBoard
    \/ Save

Spec == Init /\ [][Next]_vars

\* Merging: boards are made, formatted, appended to and replaced by the
\* result of an append
NextMerge ==
    \/ NewBoard
    \/ Format
    \/ AppendBoard
    \/ AppendFrame
    \/ AppendSelf
    \/ Adopt

SpecMerge == Init /\ [][NextMerge]_vars


(***************************************************************************)
(* Claims about the Scoreboard ledger.                                     *)
(***************************************************************************)

\* C1: every save_df(frame, path, append) call does one of three things.
\* A file that exists with a header other than the frame's column list is
\* copied aside and rewritten with a fresh header; a file that exists with
\* the same header, append requested, gets the rows appended, no header
\* written and no backup made; in every other case the file is rewritten
\* with a fresh header and a file that existed is copied aside first.  So
\* the content of an existing file is either kept as a prefix of the new
\* file or is in the backup directory.
C1_SaveDfModes ==
    [][ last'.op = "save" =>
          LET frame == sb'.adf
              fresh == File(frame.cols, frame.rows)
          IN /\ IF file # NoFile /\ file.header # frame.cols
                THEN /\ backups' = Append(backups, file)
                     /\ file' = fresh
                ELSE IF file # NoFile /\ last'.append
                THEN /\ backups' = backups
                     /\ file' = File(file.header, file.rows \o frame.rows)
                ELSE /\ file' = fresh
                     /\ backups' = IF file = NoFile THEN backups
                                   ELSE Append(backups, file)
             /\ file # NoFile =>
                   \/ file \in Range(backups')
                   \/ /\ file'.header = file.header
                      /\ Len(file'.rows) >= Len(file.rows)
                      /\ SubSeq(file'.rows, 1, Len(file.rows)) = file.rows
      ]_vars

\* C1 witness: an append-mode save added rows to an existing file with the
\* same header, after an earlier save had displaced a file into the backups.
C1_Witness ==
    /\ last.op = "save"
    /\ last.append
    /\ backups # <<>>
    /\ Len(sb.adf.rows) > 0
    /\ Len(file.rows) > Len(sb.adf.rows)

\* C2 (as claimed): after a save() the table as_data_frame() returns holds
\* the same values as the one it returned before the save, which is the
\* canonical frame of the board's scores.
C2_SaveKeepsDataFrame ==
    last.op = "save" => CachedDataFrame(sb) = AsDataFrame(sb.scores)

\* A header is canonical for a set of field names: the 18 fixed columns in
\* their listed order, then the other fields in strictly increasing
\* lexicographic order, each once.
IsCanonicalHeader(hdr, fields) ==
    /\ Len(hdr) >= Len(FixedCols)
    /\ SubSeq(hdr, 1, Len(FixedCols)) = FixedCols
    /\ \A i, j \in (Len(FixedCols) + 1)..Len(hdr) :
          i < j => LexLess(hdr[i], hdr[j])
    /\ {hdr[i] : i \in (Len(FixedCols) + 1)..Len(hdr)}
          = fields \ Range(FixedCols)

\* C10 (as claimed): for every record set a Scoreboard holds, the column
\* list save() writes is the canonical header of the set of field names.
C10_HeaderCanonicalAlways ==
    last.op = "save" => IsCanonicalHeader(file.header, Range(sb.scores.cols))

\* C10 (amended): for every record set with at least one row, the column
\* list save() writes is the canonical header of the set of field names,
\* whatever the order of the fields and of the rows; a table without rows
\* is written with its own columns in the order it has them.
C10_HeaderCanonicalNonEmpty ==
    last.op = "save" =>
        /\ sb.adf.cols = file.header
        /\ IF Len(sb.scores.rows) > 0
           THEN IsCanonicalHeader(file.header, Range(sb.scores.cols))
           ELSE file.header = sb.scores.cols

\* C10 witness: a board with rows whose fields came in a non-canonical order
\* and with two dynamic columns was saved.
C10_Witness ==
    /\ last.op = "save"
    /\ Len(sb.scores.rows) > 0
    /\ Len(file.header) > Len(FixedCols) + 1
    /\ sb.scores.cols # file.header

\* The rows append(other, no_duplicates=True) has to return, stated from the
\* two input frames a and b: cell(i, c) is the value of input row i (the
\* rows of a, then those of b) in column c, NaN where its frame has no such
\* column; row i is kept when no earlier row equals it in all columns.
MergeCols(a, b) == Range(a.cols) \cup Range(b.cols)
MergeCell(a, b, i, c) ==
    IF i <= Len(a.rows)
    THEN IF c \in Range(a.cols) THEN a.rows[i][c] ELSE NaN
    ELSE IF c \in Range(b.cols) THEN b.rows[i - Len(a.rows)][c] ELSE NaN
MergeRowEq(a, b, i, j) ==
    \A c \in MergeCols(a, b) : MergeCell(a, b, i, c) = MergeCell(a, b, j, c)
MergeKept(a, b) ==
    {i \in 1..(Len(a.rows) + Len(b.rows)) :
        \A j \in 1..(i - 1) : ~MergeRowEq(a, b, j, i)}

IsFirstOccurrences(r, a, b) ==
    LET keep == MergeKept(a, b)
    IN /\ Range(r.cols) = MergeCols(a, b)
       /\ Len(r.rows) = Cardinality(keep)
       /\ \A k \in 1..Len(r.rows) :
             \E i \in keep :
                /\ Cardinality({j \in keep : j <= i}) = k
                /\ \A c \in MergeCols(a, b) : r.rows[k][c] = MergeCell(a, b, i, c)

\* C3 (as claimed): appending a Scoreboard to itself with no_duplicates=True
\* returns as many rows as the Scoreboard has.
C3_SelfAppendSameCount ==
    (last.op = "append" /\ last.self /\ last.nodup) =>
        Len(res.scores.rows) = Len(sb.adf.rows)

\* C3 (amended): append with no_duplicates=True returns the rows of both
\* inputs in their original order without every row equal in all columns to
\* an earlier one; appending a Scoreboard to itself returns its distinct
\* rows, never more rows than it has, and as many exactly when no two of its
\* rows are equal.
C3_AppendDedup ==
    (last.op = "append" /\ last.nodup) =>
        /\ IsFirstOccurrences(res.scores, sb.adf, last.other)
        /\ last.self =>
              /\ Len(res.scores.rows) = Cardinality(Range(sb.adf.rows))
              /\ Len(res.scores.rows) <= Len(sb.adf.rows)
              /\ (Len(res.scores.rows) = Len(sb.adf.rows)) <=>
                    (\A i, j \in 1..Len(sb.adf.rows) :
                        sb.adf.rows[i] = sb.adf.rows[j] => i = j)

\* C3 witness: a board of two rows was appended another board holding a row
\* equal to its first, and the duplicate was dropped.
C3_Witness ==
    /\ last.op = "append"
    /\ last.nodup
    /\ ~last.self
    /\ Len(sb.adf.rows) = 2
    /\ Len(last.other.rows) = 1
    /\ last.other.rows[1] \in Range(res.scores.rows)
    /\ Len(res.scores.rows) = 2

(***************************************************************************)
(* Claims about the scoring of a task.                                     *)
(***************************************************************************)

\* the metric computations of a variant
MetricComputations(variant) == ZeroArgMethods(variant) \ {"_per_class_errors"}

\* C4 (as claimed): evaluate(metric) never raises, whatever the result
\* variant and the metric, the unset primary metric that compute_scores
\* passes included; a metric computation that raises gives NaN and the
\* message "scoring <m>: <message>".
C4_EvaluateNeverRaises ==
    out.op = "evaluate" =>
        /\ ~out.call.raised
        /\ (/\ out.metric.set
            /\ out.metric.name \in MetricComputations(LoadedResult.variant)
            /\ out.metric.name \in out.failing)
           => /\ out.call.score = NaN
              /\ out.call.err = Str("scoring " \o out.metric.name \o ": error")

\* C5 (as claimed): on a ClassificationResult or RegressionResult,
\* evaluate(m) returns NaN and "Unsupported metric <m> for <type>" for every
\* name m that is not a metric computation of the variant.
C5_UnsupportedMetric ==
    (/\ out.op = "evaluate"
     /\ out.metric.set
     /\ LoadedResult.variant \in {"ClassificationResult", "RegressionResult"}
     /\ out.metric.name \notin MetricComputations(LoadedResult.variant))
    => /\ ~out.call.raised
       /\ out.call.score = NaN
       /\ out.call.err = Str("Unsupported metric " \o out.metric.name \o " for "
                              \o TypeText(LoadedResult.type))

\* C6 (as claimed): with the predictions file missing, load_predictions
\* returns a NoResult, and compute_scores returns a record whose result is
\* NaN, whose info is "Missing predictions." and whose declared metrics are
\* all NaN.
C6_MissingPredictions ==
    (out.op = "compute_scores" /\ env.pred = MissingFile) =>
        /\ LoadedResult = NoResult(Str("Missing predictions."))
        /\ ~out.call.raised
        /\ Get(out.call.scores, "result") = NaN
        /\ Get(out.call.scores, "info") = Str("Missing predictions.")
        /\ \A m \in Range(env.meta.metrics) : Get(out.call.scores, m) = NaN

\* C7 (as claimed): with the metadata file missing, compute_scores returns
\* a record, whatever the loaded result is, and without a meta_result its
\* training_duration, predict_duration and models_count are NaN.
C7_MissingMetadata ==
    (out.op = "compute_scores" /\ ~env.meta.present) =>
        /\ ~out.call.raised
        /\ out.meta_result = <<>> =>
              \A i \in 1..Len(required_metares) :
                  Get(out.call.scores, required_metares[i]) = NaN

\* C8 (as claimed): in test mode, a table that validate_predictions rejects
\* stops the scoring of the task: compute_scores returns no record.
C8_ValidationStopsScoring ==
    (/\ out.op = "compute_scores"
     /\ env.test_mode
     /\ env.pred.state = "table"
     /\ ValidateRaises(env.pred.table))
    => out.call.raised

\* C9 (as claimed): score_from_predictions_file returns None for a basename
\* that does not match, and for one that matches it returns, without
\* raising, the record compute_scores gives for the predictions at the path.
C9_ScoreFromFile ==
    out.op = "score_from_predictions_file" =>
        IF FileMatches(out.sep, out.name)
        THEN /\ ~out.call.raised
             /\ out.call.record
                   = compute_scores(load_metadata(env.meta), LoadedResult, <<>>,
                                    out.failing).scores
        ELSE ~out.call.raised /\ out.call.record = NoneV

\* C11 (as claimed): in every record compute_scores returns, result is the
\* score of the primary metric: the score computed for it in the loop over
\* the declared metrics when it is one of them, and evaluate(primary metric)
\* otherwise; never the value of a record field that is no metric score.
C11_ResultIsPrimaryScore ==
    (out.op = "compute_scores" /\ ~out.call.raised) =>
        LET primary == env.meta.metric
        IN Get(out.call.scores, "result")
              = IF primary.set /\ primary.name \in Range(env.meta.metrics)
                THEN Get(out.call.scores, primary.name)
                ELSE Evaluate(LoadedResult, primary, out.failing).score

\* C12 (as claimed): validate_predictions raises for every classification
\* table (more than two columns, the last two named predictions then truth)
\* whose probability-column labels are out of lexicographic order or hold
\* the same label twice.
C12_UnsortedOrDuplicateFails ==
    (out.op = "validate_predictions") =>
        LET names == out.table.cols
            n == Len(names)
        IN (/\ n > 2
            /\ names[n - 1] = "predictions"
            /\ names[n] = "truth"
            /\ \E i, j \in 1..(n - 2) :
                  /\ i < j
                  /\ (LexLess(names[j], names[i]) \/ names[i] = names[j]))
           => out.call.raised

\* the scope parts that determine the file name _score_file builds
Determining(scope) ==
    IF Truthy(scope.framework_name)
    THEN IF Truthy(scope.task_name) THEN {"framework_name", "task_name"}
         ELSE IF Truthy(scope.benchmark_name)
         THEN {"framework_name", "benchmark_name"}
         ELSE {"framework_name"}
    ELSE IF Truthy(scope.task_name) THEN {"task_name"}
         ELSE IF Truthy(scope.benchmark_name) THEN {"benchmark_name"}
         ELSE {}

\* C13 (as claimed): from_file applied to the path _score_file builds for a
\* scope returns a Scoreboard with the scope parts that determined the file
\* name, and no other part.
C13_RoundTrip ==
    out.op = "from_file" =>
        /\ out.board # NoneV
        /\ \A p \in {"framework_name", "benchmark_name", "task_name"} :
              IF p \in Determining(out.scope)
              THEN out.board[p] = out.scope[p]
              ELSE ~Truthy(out.board[p])

====
